---- MODULE Spec2Model ----
(***************************************************************************)
(* Model of the observability demo's two engines:                          *)
(*   - artifact extraction  (demo/run_self_tracking_demo.py)               *)
(*   - task-graph generation (demo/setup_demo_tasks.py)                    *)
(*                                                                         *)
(* Text is modelled as a sequence of lines.  A line is a tuple whose first *)
(* element names its kind:                                                 *)
(*   <<"D", type, name>>  a delimiter line  "--- TYPE: name ---"           *)
(*   <<"F", tag>>         a fence line      "```tag"  (tag may be "")      *)
(*   <<"B">>              an empty / whitespace-only line                  *)
(*   <<"J">>              a complete JSON object on one line  {"a":1}      *)
(*   <<"K">>              an unterminated JSON object         {"a":        *)
(*   <<"H">>              a markdown heading                  ## Notes     *)
(*   <<"I">>              an indented comment line              # note     *)
(*   <<"T">>              any other text (YAML body, prose)                *)
(*   <<"C", factory>>     first line of a jsonnet-compiled document        *)
(* A task id is the sequence of its dash-free tokens:                      *)
(*   OB-FRONTEND-LOKI-RULES  is  <<"OB","FRONTEND","LOKI","RULES">>.       *)
(***************************************************************************)
EXTENDS Integers, Sequences, FiniteSets, TLC

VARIABLES
    call,        \* per extraction call: inputs, position in the handler, locals
    files,       \* the output directory tree: file name -> content (lines)
    JSONNET_BIN, \* whether shutil.which found a jsonnet binary
    touched,     \* history: file name -> set of calls that wrote or read it
    mode,        \* DECOMPOSE_TO_SINGLE_SERVICE
    tasks,       \* the list generate_observability_tasks returned
    walk,        \* a walk along depends_on edges: [start, cur, steps]
    regenerated, \* the list a second call of generate_observability_tasks returned
    run,         \* run_demo: its stage, filter, task sets and the task statuses
    san,         \* one text on its way through the sanitizers: input and results
    state_dir    \* setup_demo_tasks: its arguments and the task files in STATE_DIR

vars == <<call, files, JSONNET_BIN, touched, mode, tasks, walk, regenerated, run, san, state_dir>>

\* ------------------------------------------------------------------ bounds
MaxBlocks == 2

\* ------------------------------------------------------------- static data
Procs == {1, 2}

TIER_MAP ==
    [critical |-> <<"frontend", "checkoutservice", "cartservice", "paymentservice">>,
     high     |-> <<"productcatalogservice", "currencyservice", "shippingservice">>,
     medium   |-> <<"emailservice", "recommendationservice", "adservice">>,
     low      |-> <<"loadgenerator">>]

tier_order == <<"critical", "high", "medium", "low">>

SERVICE_INFO ==
    {"frontend", "checkoutservice", "cartservice", "paymentservice",
     "productcatalogservice", "currencyservice", "shippingservice",
     "emailservice", "recommendationservice", "adservice", "loadgenerator"}

\* str.upper() on the service names
Upper(s) ==
    CASE s = "frontend" -> "FRONTEND"
      [] s = "checkoutservice" -> "CHECKOUTSERVICE"
      [] s = "cartservice" -> "CARTSERVICE"
      [] s = "paymentservice" -> "PAYMENTSERVICE"
      [] s = "productcatalogservice" -> "PRODUCTCATALOGSERVICE"
      [] s = "currencyservice" -> "CURRENCYSERVICE"
      [] s = "shippingservice" -> "SHIPPINGSERVICE"
      [] s = "emailservice" -> "EMAILSERVICE"
      [] s = "recommendationservice" -> "RECOMMENDATIONSERVICE"
      [] s = "adservice" -> "ADSERVICE"
      [] s = "loadgenerator" -> "LOADGENERATOR"
      [] OTHER -> s

ARTIFACT_OUTPUT_CONFIG ==
    ("DASHBOARD" :> [dir |-> "dashboards", suffix |-> "dashboard", ext |-> "json"]) @@
    ("PROMETHEUS_RULE" :> [dir |-> "prometheus-rules", suffix |-> "rules", ext |-> "yaml"]) @@
    ("SLO" :> [dir |-> "slo-definitions", suffix |-> "slo", ext |-> "yaml"]) @@
    ("NOTIFICATION" :> [dir |-> "notification-policies", suffix |-> "notifications", ext |-> "yaml"]) @@
    ("LOKI_RULE" :> [dir |-> "loki-rules", suffix |-> "loki-rules", ext |-> "yaml"]) @@
    ("RUNBOOK" :> [dir |-> "runbooks", suffix |-> "runbook", ext |-> "md"])

TASK_KEY_TO_DELIMITER ==
    (<<"DASHBOARDS">> :> "DASHBOARD") @@
    (<<"DASHBOARD">> :> "DASHBOARD") @@
    (<<"ALERTS">> :> "PROMETHEUS_RULE") @@
    (<<"SLOS">> :> "SLO") @@
    (<<"NOTIFY">> :> "NOTIFICATION") @@
    (<<"LOKI", "RULES">> :> "LOKI_RULE") @@
    (<<"RUNBOOKS">> :> "RUNBOOK") @@
    (<<"RUNBOOK">> :> "RUNBOOK")

ARTIFACT_KEY_TO_FACTORY ==
    (<<"DASHBOARDS">> :> "dashboard") @@
    (<<"DASHBOARD">> :> "dashboard") @@
    (<<"ALERTS">> :> "alerts") @@
    (<<"SLOS">> :> "slo") @@
    (<<"NOTIFY">> :> "notification") @@
    (<<"LOKI", "RULES">> :> "loki_rules")

\* ------------------------------------------------------------ text helpers
IsBlank(l) == l = <<"B">>
IsFence(l) == l[1] = "F"
IsDelim(l) == l[1] = "D"

\* str.lstrip() / str.strip() at line granularity
RECURSIVE LStrip(_)
LStrip(t) == IF t # <<>> /\ IsBlank(Head(t)) THEN LStrip(Tail(t)) ELSE t

RECURSIVE RStrip(_)
RStrip(t) ==
    IF t # <<>> /\ IsBlank(t[Len(t)]) THEN RStrip(SubSeq(t, 1, Len(t) - 1)) ELSE t

Strip(t) == RStrip(LStrip(t))

\* re.sub(r'^```\w*\s*$', '', text, flags=re.MULTILINE) when anyTag, and
\* re.sub(r'^```\s*$', '', ...) otherwise: every matching fence line, together
\* with the blank lines that follow it (\s* runs over newlines), becomes one
\* empty line.
RECURSIVE SubFences(_, _)
SubFences(t, anyTag) ==
    IF t = <<>> THEN <<>>
    ELSE IF IsFence(Head(t)) /\ (anyTag \/ Head(t)[2] = "")
         THEN << <<"B">> >> \o SubFences(LStrip(Tail(t)), anyTag)
         ELSE <<Head(t)>> \o SubFences(Tail(t), anyTag)

strip_code_fences(t) == Strip(SubFences(SubFences(t, TRUE), FALSE))

\* a truncation that drops text it cannot decode
truncate_to_valid_json_DropInvalid(t) ==
    LET s == LStrip(t) IN
        IF s = <<>> \/ Head(s)[1] \notin {"J", "K"} THEN s
        ELSE IF Head(s)[1] = "J" THEN <<Head(s)>>
        ELSE <<>>

\* json.JSONDecoder().raw_decode on the left-stripped text: a leading complete
\* value is cut out, anything else is returned as it is.
truncate_to_valid_json(t) ==
    LET s == LStrip(t) IN
        IF s = <<>> \/ Head(s)[1] \notin {"J", "K"} THEN s
        ELSE IF Head(s)[1] = "J" THEN <<Head(s)>>
        ELSE s

\* a test of the unstripped line: only a heading in the first column passes
IsHeading_ColumnZero(l) == l[1] = "H"

\* line.strip().startswith('## ') or line.strip().startswith('# '): the
\* line is stripped before the test, so an indented "# ..." line passes too
IsHeading(l) == l[1] \in {"H", "I"}

\* index of the first line that passes the heading test, Len+1 when there is
\* none
RECURSIVE FirstHeading(_, _)
FirstHeading(t, i) ==
    IF i > Len(t) THEN i
    ELSE IF IsHeading(t[i]) THEN i
    ELSE FirstHeading(t, i + 1)

truncate_to_valid_yaml(t) == Strip(SubSeq(t, 1, FirstHeading(t, 1) - 1))

\* the ext-dependent truncation of _handle_raw_output
TruncateForExt(t, ext) ==
    IF ext = "json" THEN truncate_to_valid_json(t)
    ELSE IF ext \in {"yaml", "yml"} THEN truncate_to_valid_yaml(t)
    ELSE t

\* re.search in place of re.finditer: only the first delimiter is found
DELIMITER_RE_FirstOnly(content) ==
    IF \E i \in 1..Len(content) : IsDelim(content[i])
    THEN << CHOOSE i \in 1..Len(content) :
                IsDelim(content[i]) /\ \A j \in 1..(i - 1) : ~IsDelim(content[j]) >>
    ELSE << >>

\* _DELIMITER_RE.finditer: the positions of the delimiter lines, in order
DELIMITER_RE(content) ==
    LET F[i \in 0..Len(content)] ==
            IF i = 0 THEN <<>>
            ELSE IF IsDelim(content[i]) THEN Append(F[i - 1], i) ELSE F[i - 1]
    IN F[Len(content)]

\* a span that runs on to the next marker of the same type
SpanOf_SameType(content, matches, i) ==
    LET start == matches[i] + 1
        same  == { j \in (i + 1)..Len(matches) :
                      content[matches[j]][2] = content[matches[i]][2] }
        end   == IF same # {} THEN matches[CHOOSE j \in same : \A k \in same : j <= k] - 1
                 ELSE Len(content)
    IN Strip(SubSeq(content, start, end))

\* content[match.end() : next.start() or len(content)].strip()
SpanOf(content, matches, i) ==
    LET start == matches[i] + 1
        end   == IF i + 1 <= Len(matches) THEN matches[i + 1] - 1 ELSE Len(content)
    IN Strip(SubSeq(content, start, end))

\* task_id.split("-") without the maxsplit: the third part stops at a dash
parse_task_artifact_key_ThirdPart(task_id) ==
    IF Len(task_id) < 3 \/ task_id[1] # "OB" THEN <<>>
    ELSE <<task_id[3]>>

\* a parse that forgot the task-family marker
parse_task_artifact_key_AnyFamily(task_id) ==
    IF Len(task_id) < 3 THEN <<>> ELSE SubSeq(task_id, 3, Len(task_id))

\* task_id.split("-", 2): fewer than three parts or a first part other than
\* OB give None (here <<>>); otherwise the third part, dashes included.
parse_task_artifact_key(task_id) ==
    IF Len(task_id) < 3 \/ task_id[1] # "OB" THEN <<>>
    ELSE SubSeq(task_id, 3, Len(task_id))

\* Python truthiness of the parsed key: None and "" are falsy
KeyIsFalsy(key) == key = <<>> \/ key = <<"">>


\* ------------------------------------------------- task-graph generation
standard_artifacts ==
    << <<"DASHBOARDS">>, <<"ALERTS">>, <<"SLOS">>, <<"NOTIFY">>,
       <<"LOKI", "RULES">>, <<"RUNBOOKS">> >>

loadgen_artifacts == << <<"DASHBOARD">>, <<"RUNBOOK">> >>

TIER_CONFIGS ==
    << [name |-> "critical", prefix |-> "CRIT", phase |-> 1,
        gate_deps |-> << >>,
        artifacts |-> standard_artifacts],
       [name |-> "high", prefix |-> "HIGH", phase |-> 2,
        gate_deps |-> << <<"OB", "CRIT", "DASHBOARDS">> >>,
        artifacts |-> standard_artifacts],
       [name |-> "medium", prefix |-> "MED", phase |-> 3,
        gate_deps |-> << <<"OB", "HIGH", "DASHBOARDS">> >>,
        artifacts |-> standard_artifacts],
       [name |-> "low", prefix |-> "LOW", phase |-> 4,
        gate_deps |-> << <<"OB", "MED", "DASHBOARDS">> >>,
        artifacts |-> loadgen_artifacts] >>

TIER_TO_PHASE == [critical |-> 1, high |-> 2, medium |-> 3, low |-> 4]

\* the service names in the order of Python's string comparison
ALPHABETICAL ==
    <<"adservice", "cartservice", "checkoutservice", "currencyservice",
      "emailservice", "frontend", "loadgenerator", "paymentservice",
      "productcatalogservice", "recommendationservice", "shippingservice">>

InSeq(x, sq) == \E k \in 1..Len(sq) : sq[k] = x

\* sorted(names) for distinct service names
sorted(names) ==
    LET F[k \in 0..Len(ALPHABETICAL)] ==
            IF k = 0 THEN << >>
            ELSE IF InSeq(ALPHABETICAL[k], names)
                 THEN Append(F[k - 1], ALPHABETICAL[k]) ELSE F[k - 1]
    IN F[Len(ALPHABETICAL)]

\* a reverse lookup that files every service under the first tier
SERVICE_TO_TIER_First(svc) == "critical"

\* SERVICE_TO_TIER[svc]: the reverse lookup of TIER_MAP
SERVICE_TO_TIER(svc) == CHOOSE t \in DOMAIN TIER_MAP : InSeq(svc, TIER_MAP[t])

\* contexts only for the services a ProjectContext CRD was found for
build_all_contexts_LoadedOnly(crds) == crds

\* build_all_contexts: one context per entry of SERVICE_INFO, whatever the
\* optional data sources (here crds, the services load_project_contexts
\* found) hold
build_all_contexts(crds) == SERVICE_INFO

Task(id, type, phase, depends_on, service_name) ==
    [id |-> id, type |-> type, phase |-> phase, depends_on |-> depends_on,
     service_name |-> service_name]

\* batched tasks without gate dependencies
BatchedDependsOn_None(tc) == << >>

\* gating a tier's batched tasks on that tier's own dashboard task
BatchedDependsOn_Self(tc) == << <<"OB", tc.prefix, "DASHBOARDS">> >>

\* the dependencies of one batched task: list(tc["gate_deps"])
BatchedDependsOn(tc) == tc.gate_deps

\* _generate_batched_tasks: for tc in TIER_CONFIGS, for artifact_key in
\* tc["artifacts"]
generate_batched_tasks ==
    LET TierTasks(tc) ==
            [k \in 1..Len(tc.artifacts) |->
                Task(<<"OB", tc.prefix>> \o tc.artifacts[k], "task", tc.phase,
                     BatchedDependsOn(tc), "")]
        F[n \in 0..Len(TIER_CONFIGS)] ==
            IF n = 0 THEN << >> ELSE F[n - 1] \o TierTasks(TIER_CONFIGS[n])
    IN F[Len(TIER_CONFIGS)]

\* gating on the tier's own dashboards instead of the preceding tier's
GatingTier_Same(tier) == tier

\* the tier whose dashboard ids gate the tasks of `tier` ("" for none)
GatingTier(tier) ==
    IF tier = "high" THEN "critical"
    ELSE IF tier = "medium" THEN "high"
    ELSE IF tier = "low" THEN "medium"
    ELSE ""

\* tracking every artifact id, not only the dashboards
IsDashboardKey_Any(artifact_key) == TRUE

\* whether a generated task feeds tier_dashboard_ids
IsDashboardKey(artifact_key) == artifact_key \in { <<"DASHBOARDS">>, <<"DASHBOARD">> }

\* the inner loops without the reduced list for loadgenerator
TierItems_AllStandard(contexts, tier) ==
    LET services == sorted(TIER_MAP[tier])
        ItemsOf(sv) == IF sv \in contexts
                       THEN [k \in 1..Len(standard_artifacts) |-> <<sv, standard_artifacts[k]>>]
                       ELSE << >>
        F[n \in 0..Len(services)] ==
            IF n = 0 THEN << >> ELSE F[n - 1] \o ItemsOf(services[n])
    IN F[Len(services)]

\* the (service_name, artifact_key) pairs the two inner loops of
\* _generate_decomposed_tasks visit for one tier, in order: services sorted,
\* those without a context skipped, loadgenerator with its reduced list
TierItems(contexts, tier) ==
    LET services == sorted(TIER_MAP[tier])
        Arts(sv) == IF sv = "loadgenerator" THEN loadgen_artifacts ELSE standard_artifacts
        ItemsOf(sv) == IF sv \in contexts
                       THEN [k \in 1..Len(Arts(sv)) |-> <<sv, Arts(sv)[k]>>]
                       ELSE << >>
        F[n \in 0..Len(services)] ==
            IF n = 0 THEN << >> ELSE F[n - 1] \o ItemsOf(services[n])
    IN F[Len(services)]

\* an id that leaves the service out
DecomposedTaskId_NoService(item) == <<"OB", "SVC">> \o item[2]

\* task_id = f"OB-{service_name.upper()}-{artifact_key}"
DecomposedTaskId(item) == <<"OB", Upper(item[1])>> \o item[2]

IsDashboardId(task_id) == IsDashboardKey(SubSeq(task_id, 3, Len(task_id)))

\* tier_dashboard_ids when the loop reaches item k of `tier`: the earlier
\* tiers' lists, and for `tier` the dashboard ids appended by items 1..k-1
DashboardIdsAt(dash, tier, items, k) ==
    [dash EXCEPT ![tier] =
        SelectSeq([j \in 1..(k - 1) |-> DecomposedTaskId(items[j])], IsDashboardId)]

\* the task appended by the innermost loop body, given tier_dashboard_ids
DecomposedTask(dash, tier, item) ==
    LET gate == GatingTier(tier)
        depends_on == IF gate = "" THEN << >> ELSE dash[gate]
        phase == IF tier \in DOMAIN TIER_TO_PHASE THEN TIER_TO_PHASE[tier] ELSE 3
    IN Task(DecomposedTaskId(item), "task", phase, depends_on, item[1])

\* the outer loop: st holds the task list and tier_dashboard_ids so far
RECURSIVE DecomposedTiers(_, _, _)
DecomposedTiers(st, contexts, n) ==
    IF n > Len(tier_order) THEN st
    ELSE LET tier  == tier_order[n]
             items == TierItems(contexts, tier)
             new   == [k \in 1..Len(items) |->
                          DecomposedTask(
                              DashboardIdsAt(st.tier_dashboard_ids, tier, items, k),
                              tier, items[k])]
         IN DecomposedTiers(
                [tasks |-> st.tasks \o new,
                 tier_dashboard_ids |->
                    DashboardIdsAt(st.tier_dashboard_ids, tier, items, Len(items) + 1)],
                contexts, n + 1)

\* _generate_decomposed_tasks(contexts)
generate_decomposed_tasks(contexts) ==
    DecomposedTiers(
        [tasks |-> << >>,
         tier_dashboard_ids |->
            [critical |-> << >>, high |-> << >>, medium |-> << >>, low |-> << >>]],
        contexts, 1).tasks

OB_EPIC    == <<"OB", "EPIC">>
OB_LOAD    == <<"OB", "LOAD">>
OB_VERIFY  == <<"OB", "VERIFY">>
OB_SUMMARY == <<"OB", "SUMMARY">>

\* an aggregation task that waits for the dashboards only
UtilityTasks_DashboardsOnly(all_artifact_ids) ==
    << Task(OB_LOAD, "task", 5, SelectSeq(all_artifact_ids, IsDashboardId), ""),
       Task(OB_VERIFY, "task", 5, <<OB_LOAD>>, ""),
       Task(OB_SUMMARY, "task", 6, <<OB_VERIFY>>, "") >>

\* the utility tasks appended after the artifact tasks
UtilityTasks(all_artifact_ids) ==
    << Task(OB_LOAD, "task", 5, all_artifact_ids, ""),
       Task(OB_VERIFY, "task", 5, <<OB_LOAD>>, ""),
       Task(OB_SUMMARY, "task", 6, <<OB_VERIFY>>, "") >>

\* generate_observability_tasks() with DECOMPOSE_TO_SINGLE_SERVICE = decompose,
\* run while the data sources on disk hold crds
generate_observability_tasks(decompose, crds) ==
    LET artifact_tasks == IF decompose
                          THEN generate_decomposed_tasks(build_all_contexts(crds))
                          ELSE generate_batched_tasks
        all_artifact_ids == [k \in 1..Len(artifact_tasks) |-> artifact_tasks[k].id]
    IN << Task(OB_EPIC, "epic", 0, << >>, "") >> \o artifact_tasks
       \o UtilityTasks(all_artifact_ids)

\* positions in the task list whose id is d
IndexesOf(ts, d) == { k \in 1..Len(ts) : ts[k].id = d }

\* ------------------------------------------------ task graph: the actions
\* what load_project_contexts may find on disk
CrdSets == SUBSET {"frontend", "loadgenerator"}

Generate ==
    /\ tasks = << >>
    /\ \E crds \in CrdSets : tasks' = generate_observability_tasks(mode, crds)
    /\ UNCHANGED <<call, files, JSONNET_BIN, touched, mode, walk, regenerated, run, san, state_dir>>

\* a second invocation in the same mode, the data sources possibly changed
Regenerate ==
    /\ tasks # << >>
    /\ regenerated = << >>
    /\ \E crds \in CrdSets : regenerated' = generate_observability_tasks(mode, crds)
    /\ UNCHANGED <<call, files, JSONNET_BIN, touched, mode, tasks, walk, run, san, state_dir>>

\* pick a task to inspect
WalkStart ==
    /\ tasks # << >>
    /\ walk.start = 0
    /\ \E k \in 1..Len(tasks) : walk' = [start |-> k, cur |-> k, steps |-> 0]
    /\ UNCHANGED <<call, files, JSONNET_BIN, touched, mode, tasks, regenerated, run, san, state_dir>>

\* follow one depends_on edge from the current task
WalkDep ==
    /\ walk.start # 0
    /\ \E n \in 1..Len(tasks[walk.cur].depends_on) :
         \E k \in IndexesOf(tasks, tasks[walk.cur].depends_on[n]) :
            walk' = [walk EXCEPT !.cur = k, !.steps = 1]
    /\ UNCHANGED <<call, files, JSONNET_BIN, touched, mode, tasks, regenerated, run, san, state_dir>>

\* --------------------------------------------------- run_demo: service names
TIER_SERVICE_MAP ==
    ("CRIT" :> TIER_MAP.critical) @@ ("HIGH" :> TIER_MAP.high) @@
    ("MED" :> TIER_MAP.medium) @@ ("LOW" :> TIER_MAP.low)

\* _task_service_names[tid]: the tier's members for a tier prefix, the one
\* service for an upper-cased service name, None (here <<>>) otherwise.  The
\* persisted task record carries no service_name, so the third branch of the
\* lookup never applies.
task_service_names(tid) ==
    IF Len(tid) >= 2 /\ tid[1] = "OB"
    THEN IF tid[2] \in DOMAIN TIER_SERVICE_MAP THEN TIER_SERVICE_MAP[tid[2]]
         ELSE IF \E s \in SERVICE_INFO : Upper(s) = tid[2]
              THEN <<CHOOSE s \in SERVICE_INFO : Upper(s) = tid[2]>>
              ELSE <<>>
    ELSE <<>>

UTILITY_IDS == {<<"OB", "EPIC">>, <<"OB", "LOAD">>, <<"OB", "VERIFY">>, <<"OB", "SUMMARY">>}

\* ------------------------------------------------------------ file helpers
PARAMS_DIR == "params"

ArtifactFile(cfg, service_name) == <<cfg.dir, service_name, cfg.suffix, cfg.ext>>
ParamsFile(service_name) == <<PARAMS_DIR, service_name, "params", "libsonnet">>

\* Path.write_text(text): the file holds text afterwards
WriteText(fs, f, text) == (f :> text) @@ fs

Touch(th, f, p) == (f :> ((IF f \in DOMAIN th THEN th[f] ELSE {}) \cup {p})) @@ th

\* ----------------------------------------------------- extraction: inputs
Names == {"frontend", "cartservice"}
Types == {"DASHBOARD", "PROMETHEUS_RULE", "PARAMS"}

Bodies ==
    { <<>>,
      << <<"F", "json">>, <<"J">>, <<"F", "">>, <<"T">> >>,
      << <<"K">> >>,
      << <<"T">>, <<"H">>, <<"T">> >>,
      << <<"F", "yaml">>, <<"B">>, <<"F", "">> >> }

\* the drafter's lead-in prose before the first delimiter
Preambles == { << <<"T">> >> }

\* what a drafter puts under a PARAMS marker: a libsonnet literal in fences,
\* or nothing but fences
ParamsBodies ==
    { << <<"F", "">>, <<"T">>, <<"F", "">> >>,
      << <<"F", "yaml">>, <<"B">>, <<"F", "">> >> }

BlockSet ==
    { << <<"D", ty, nm>> >> \o b : ty \in Types \ {"PARAMS"}, nm \in Names, b \in Bodies }
    \cup { << <<"D", "PARAMS", nm>> >> \o b : nm \in Names, b \in ParamsBodies }

RECURSIVE BlockSeqs(_)
BlockSeqs(n) ==
    IF n = 0 THEN { <<>> }
    ELSE { c \o b : c \in BlockSeqs(n - 1), b \in BlockSet }

Contents ==
    Bodies \cup
    { pre \o c : pre \in Preambles, c \in UNION { BlockSeqs(k) : k \in 1..MaxBlocks } }

TaskIds ==
    { <<"OB", "FRONTEND", "DASHBOARDS">>,
      <<"OB", "FRONTEND", "ALERTS">>,
      <<"OB", "CRIT", "ALERTS">>,
      <<"OB", "FRONTEND", "FOO">> }

\* ret before the call has returned
NoRet == 0 - 1

NewCall(tid, content) ==
    [task_id |-> tid, content |-> content, svc |-> task_service_names(tid),
     pc |-> "idle", i |-> 1, saved |-> 0, compiled |-> 0, ret |-> NoRet,
     warned |-> <<>>, wrote |-> {}, failed |-> {}, msg |-> "", direct |-> FALSE,
     info |-> <<>>]

\* _split_and_save_artifacts called on its own, not from the callback
DirectCall(tid, content) == [NewCall(tid, content) EXCEPT !.direct = TRUE]

OffCall == [NewCall(<<>>, <<>>) EXCEPT !.pc = "off"]

\* --------------------------------------------------- extraction: handlers
Key(p)     == parse_task_artifact_key(call[p].task_id)
Matches(p) == DELIMITER_RE(call[p].content)
MatchLine(p, i) == call[p].content[Matches(p)[i]]

\* any(m.group(1) == "PARAMS" for m in matches)
is_params_output(p) == \E i \in 1..Len(Matches(p)) : MatchLine(p, i)[2] = "PARAMS"

\* _handle_raw_output up to its loop: the lookups of the delimiter type and the
\* output config
RawDelimiterType(key) ==
    IF key \in DOMAIN TASK_KEY_TO_DELIMITER THEN TASK_KEY_TO_DELIMITER[key] ELSE ""

\* a fallback that fires for any non-empty expected list
SingleServiceFallback_AnyExpected(matches, svc) == matches = <<>> /\ Len(svc) >= 1

\* "if not matches and service_names and len(service_names) == 1"
SingleServiceFallback(matches, svc) == matches = <<>> /\ Len(svc) = 1

\* a loop that lost its type filter
TypeMatches_Always(found_type, wanted) == TRUE

\* "if found_type != <wanted type>: continue", negated
TypeMatches(found_type, wanted) == found_type = wanted

\* the sanitized text of one block on the raw path
RawArtifactContent(span, ext) ==
    LET a == strip_code_fences(span) IN
        IF a = <<>> THEN <<>> ELSE TruncateForExt(a, ext)

\* the comparison written with <= : warns although every service was saved
TruncationWarning_OffByOne(svc, saved) ==
    IF svc # <<>> /\ saved <= Len(svc) THEN <<saved, Len(svc)>> ELSE <<>>

\* warnings.warn at the end of _handle_raw_output: <<saved, expected>> when
\* fewer artifacts were saved than services expected, <<>> for no warning
TruncationWarning(svc, saved) ==
    IF svc # <<>> /\ saved < Len(svc) THEN <<saved, Len(svc)>> ELSE <<>>

\* _on_task_complete_inner once _split_and_save_artifacts has returned `ret`:
\* the message it prints
Returned(c, ret) ==
    [c EXCEPT !.pc = "done", !.ret = ret,
              !.msg = IF ret > 0
                      THEN IF Len(c.svc) > 0 /\ ret < Len(c.svc) THEN "warn" ELSE "saved"
                      ELSE "zero"]

\* an exception leaving _split_and_save_artifacts: caught by the callback's
\* "artifact save error" handler
\* (i is the block whose file write raised, 0 on the fallback path)
Raised(c, i) == [c EXCEPT !.pc = "done", !.msg = "error", !.failed = {i}]

\* on_task_complete entering _split_and_save_artifacts: the callback's guard,
\* the key parse, the delimiter scan and the dispatch; the single-service
\* fallback and the no-delimiter return happen here, the loops in the actions
\* that follow.
split_and_save_artifacts(p) ==
    /\ call[p].pc = "idle"
    /\ LET c   == call[p]
           key == Key(p)
           dt  == RawDelimiterType(key)
       IN
       IF ~c.direct /\ ~(c.content # <<>> /\ Len(c.task_id) >= 2 /\ c.task_id[1] = "OB"
                          /\ c.task_id \notin UTILITY_IDS)
       THEN /\ call' = [call EXCEPT ![p].pc = "done", ![p].msg = "success"]
            /\ UNCHANGED <<files, touched>>
       ELSE IF KeyIsFalsy(key)
       THEN /\ call' = [call EXCEPT ![p] = Returned(c, 0)]
            /\ UNCHANGED <<files, touched>>
       ELSE IF is_params_output(p)
       THEN /\ call' = [call EXCEPT ![p].pc = "params"]
            /\ UNCHANGED <<files, touched>>
       ELSE IF dt = "" \/ dt \notin DOMAIN ARTIFACT_OUTPUT_CONFIG
       THEN /\ call' = [call EXCEPT ![p] = Returned(c, 0)]
            /\ UNCHANGED <<files, touched>>
       ELSE IF SingleServiceFallback(Matches(p), c.svc)
       THEN LET cfg == ARTIFACT_OUTPUT_CONFIG[dt]
                a   == TruncateForExt(strip_code_fences(c.content), cfg.ext)
                f   == ArtifactFile(cfg, c.svc[1])
            IN IF a # <<>>
               THEN \/ /\ files' = WriteText(files, f, a)
                       /\ touched' = Touch(touched, f, p)
                       /\ call' = [call EXCEPT ![p] = Returned([c EXCEPT !.wrote = {<<0, f>>}], 1)]
                    \/ /\ call' = [call EXCEPT ![p] = Raised(c, 0)]
                       /\ UNCHANGED <<files, touched>>
               ELSE /\ call' = [call EXCEPT ![p] = Returned(c, 0)]
                    /\ UNCHANGED <<files, touched>>
       ELSE IF Matches(p) = <<>>
       THEN /\ call' = [call EXCEPT ![p] = Returned(c, 0)]
            /\ UNCHANGED <<files, touched>>
       ELSE /\ call' = [call EXCEPT ![p].pc = "raw"]
            /\ UNCHANGED <<files, touched>>
    /\ UNCHANGED <<JSONNET_BIN, mode, tasks, walk, regenerated, run, san, state_dir>>

\* one iteration of the loop of _handle_raw_output
handle_raw_output_step(p) ==
    /\ call[p].pc = "raw"
    /\ call[p].i <= Len(Matches(p))
    /\ LET c    == call[p]
           i    == c.i
           dt   == RawDelimiterType(Key(p))
           cfg  == ARTIFACT_OUTPUT_CONFIG[dt]
           m    == MatchLine(p, i)
           span == SpanOf(c.content, Matches(p), i)
           a    == RawArtifactContent(span, cfg.ext)
           f    == ArtifactFile(cfg, m[3])
       IN
       IF ~TypeMatches(m[2], dt) \/ span = <<>> \/ a = <<>>
       THEN /\ call' = [call EXCEPT ![p].i = i + 1]
            /\ UNCHANGED <<files, touched>>
       ELSE \/ /\ files' = WriteText(files, f, a)
               /\ touched' = Touch(touched, f, p)
               /\ call' = [call EXCEPT ![p].i = i + 1, ![p].saved = c.saved + 1,
                                       ![p].wrote = c.wrote \cup {<<i, f>>}]
            \/ /\ call' = [call EXCEPT ![p] = Raised(c, i)]
               /\ UNCHANGED <<files, touched>>
    /\ UNCHANGED <<JSONNET_BIN, mode, tasks, walk, regenerated, run, san, state_dir>>

\* after the loop: the truncation warning and the return
handle_raw_output_return(p) ==
    /\ call[p].pc = "raw"
    /\ call[p].i > Len(Matches(p))
    /\ LET c == call[p] IN
       call' = [call EXCEPT
                  ![p] = Returned([c EXCEPT !.warned = TruncationWarning(c.svc, c.saved)],
                                  c.saved)]
    /\ UNCHANGED <<files, touched, JSONNET_BIN, mode, tasks, walk, regenerated, run, san, state_dir>>

\* one iteration of the loop of _handle_params_output, up to the saved
\* .libsonnet file
handle_params_output_save(p) ==
    /\ call[p].pc = "params"
    /\ call[p].i <= Len(Matches(p))
    /\ LET c    == call[p]
           i    == c.i
           m    == MatchLine(p, i)
           span == SpanOf(c.content, Matches(p), i)
           a    == strip_code_fences(span)
           f    == ParamsFile(m[3])
       IN
       IF ~TypeMatches(m[2], "PARAMS") \/ span = <<>> \/ a = <<>>
       THEN /\ call' = [call EXCEPT ![p].i = i + 1]
            /\ UNCHANGED <<files, touched>>
       ELSE \/ /\ files' = WriteText(files, f, a)
               /\ touched' = Touch(touched, f, p)
               /\ call' = [call EXCEPT
                             ![p].saved = c.saved + 1,
                             ![p].wrote = c.wrote \cup {<<i, f>>},
                             ![p].pc = IF JSONNET_BIN /\ Key(p) \in DOMAIN ARTIFACT_KEY_TO_FACTORY
                                       THEN "compile" ELSE "params",
                             ![p].i = IF JSONNET_BIN /\ Key(p) \in DOMAIN ARTIFACT_KEY_TO_FACTORY
                                      THEN i ELSE i + 1]
            \/ /\ call' = [call EXCEPT ![p] = Raised(c, i)]
               /\ UNCHANGED <<files, touched>>
    /\ UNCHANGED <<JSONNET_BIN, mode, tasks, walk, regenerated, run, san, state_dir>>

\* a compiler failure that escapes as an exception
AfterCompileFailure_Abort(c) == Raised(c, c.i)

\* _compile_jsonnet returned None: the loop of _handle_params_output goes on
\* to the next match
AfterCompileFailure(c) == [c EXCEPT !.pc = "params", !.i = c.i + 1]

CompileOutcomes == {"no_factory", "nonzero", "timeout", "write_error", "ok"}

\* _compile_jsonnet for the block just saved: the jsonnet child imports the
\* params file as it is on disk when it runs, and its stdout becomes the
\* artifact file.  Every failure returns None.
compile_jsonnet(p) ==
    /\ call[p].pc = "compile"
    /\ LET c   == call[p]
           key == Key(p)
           m   == MatchLine(p, c.i)
           pf  == ParamsFile(m[3])
           cfg == ARTIFACT_OUTPUT_CONFIG[TASK_KEY_TO_DELIMITER[key]]
           f   == ArtifactFile(cfg, m[3])
       IN \E outcome \in CompileOutcomes :
            IF outcome = "ok"
            THEN /\ files' = WriteText(files, f,
                                       << <<"C", ARTIFACT_KEY_TO_FACTORY[key]>> >> \o files[pf])
                 /\ touched' = Touch(Touch(touched, pf, p), f, p)
                 /\ call' = [call EXCEPT ![p].pc = "params", ![p].i = c.i + 1,
                                         ![p].compiled = c.compiled + 1,
                                         ![p].wrote = c.wrote \cup {<<c.i, f>>}]
            ELSE /\ call' = [call EXCEPT ![p] = AfterCompileFailure(c)]
                 /\ UNCHANGED <<files, touched>>
    /\ UNCHANGED <<JSONNET_BIN, mode, tasks, walk, regenerated, run, san, state_dir>>

\* a result that counts the saved parameter files only
ParamsResult_Saved(saved, compiled) == saved

\* "return compiled if compiled > 0 else saved"
ParamsResult(saved, compiled) == IF compiled > 0 THEN compiled ELSE saved

\* the [INFO] line: <<saved, compiled>> when "saved > 0 and compiled < saved",
\* <<>> when nothing is printed
ParamsInfo(saved, compiled) ==
    IF saved > 0 /\ compiled < saved THEN <<saved, compiled>> ELSE <<>>

\* after the loop of _handle_params_output
handle_params_output_return(p) ==
    /\ call[p].pc = "params"
    /\ call[p].i > Len(Matches(p))
    /\ LET c == call[p] IN
       call' = [call EXCEPT
                  ![p] = Returned([c EXCEPT !.info = ParamsInfo(c.saved, c.compiled)],
                                  ParamsResult(c.saved, c.compiled))]
    /\ UNCHANGED <<files, touched, JSONNET_BIN, mode, tasks, walk, regenerated, run, san, state_dir>>

ExtractNext ==
    \E p \in Procs :
        \/ split_and_save_artifacts(p)
        \/ handle_raw_output_step(p)
        \/ handle_raw_output_return(p)
        \/ handle_params_output_save(p)
        \/ compile_jsonnet(p)
        \/ handle_params_output_return(p)

NoWalk == [start |-> 0, cur |-> 0, steps |-> 0]

\* run_demo not started
NoRun == [stage |-> "off", phases |-> {}, pending |-> {}, dispatched |-> {},
          status |-> << >>]

\* setup_demo_tasks not called
NoStateDir == [stage |-> "off", records |-> << >>, created |-> {}, skipped |-> {},
               phases |-> {}, clean |-> FALSE, dry_run |-> FALSE]

\* no text in the sanitizers
NoSan == [stage |-> "off", text |-> << >>, stripped |-> << >>, again |-> << >>,
          yaml |-> << >>]

\* one extraction call, run on its own
Init ==
    /\ \E tid \in TaskIds, content \in Contents :
          call = [p \in Procs |-> IF p = 1 THEN NewCall(tid, content) ELSE OffCall]
    /\ files = << >>
    /\ touched = << >>
    /\ JSONNET_BIN \in BOOLEAN
    /\ mode = TRUE
    /\ tasks = << >>
    /\ walk = NoWalk
    /\ regenerated = << >>
    /\ run = NoRun
    /\ san = NoSan
    /\ state_dir = NoStateDir

Next == ExtractNext

Spec == Init /\ [][Next]_vars


\* the generated task graph, walked along its dependency edges
InitGraph ==
    /\ call = [p \in Procs |-> OffCall]
    /\ files = << >>
    /\ touched = << >>
    /\ JSONNET_BIN = FALSE
    /\ mode \in BOOLEAN
    /\ tasks = << >>
    /\ walk = NoWalk
    /\ regenerated = << >>
    /\ run = NoRun
    /\ san = NoSan
    /\ state_dir = NoStateDir

NextGraph == Generate \/ Regenerate \/ WalkStart \/ WalkDep

SpecGraph == InitGraph /\ [][NextGraph]_vars


\* two extraction calls for different tasks of the same service, their steps
\* interleaved by an external scheduler
ConcContents == { pre \o b : pre \in Preambles, b \in BlockSet }

InitConc ==
    /\ \E c1 \in ConcContents, c2 \in ConcContents :
          call = [p \in Procs |->
                    IF p = 1 THEN NewCall(<<"OB", "FRONTEND", "DASHBOARDS">>, c1)
                    ELSE NewCall(<<"OB", "FRONTEND", "ALERTS">>, c2)]
    /\ files = << >>
    /\ touched = << >>
    /\ JSONNET_BIN \in BOOLEAN
    /\ mode = TRUE
    /\ tasks = << >>
    /\ walk = NoWalk
    /\ regenerated = << >>
    /\ run = NoRun
    /\ san = NoSan
    /\ state_dir = NoStateDir

SpecConc == InitConc /\ [][ExtractNext]_vars


\* _split_and_save_artifacts called directly with ids of any shape
ForeignIds ==
    { <<"OB">>,
      <<"OB", "FRONTEND">>,
      <<"XX", "FRONTEND", "DASHBOARDS">>,
      <<"OB", "FRONTEND", "">> }

DirectIds == ForeignIds \cup { <<"OB", "FRONTEND", "DASHBOARDS">> }

InitDirect ==
    /\ \E tid \in DirectIds, content \in Contents :
          call = [p \in Procs |-> IF p = 1 THEN DirectCall(tid, content) ELSE OffCall]
    /\ files = << >>
    /\ touched = << >>
    /\ JSONNET_BIN \in BOOLEAN
    /\ mode = TRUE
    /\ tasks = << >>
    /\ walk = NoWalk
    /\ regenerated = << >>
    /\ run = NoRun
    /\ san = NoSan
    /\ state_dir = NoStateDir

SpecDirect == InitDirect /\ [][ExtractNext]_vars


\* ---------------------------------------------------------------- run_demo
MaxPending == 2

\* the --phases argument: None (here {}) or a list of phases
PhaseFilters == { {}, {1, 2, 3, 4} }

\* "if phases: tasks = [t for t in tasks if phase in phases or phase == 0]"
PhaseFilter(ts, pending, phases) ==
    IF phases = {} THEN pending
    ELSE { k \in pending : ts[k].phase \in phases \/ ts[k].phase = 0 }

\* epic_tasks = [t for t in tasks if t.config.get("task.type") == "epic"]
EpicTasks(ts, pending) == { k \in pending : ts[k].type = "epic" }

\* a split that sends every pending task to the runner
WorkflowTasks_All(ts, pending) == pending

\* workflow_tasks = [t for t in tasks if t.config.get("task.type") != "epic"]
WorkflowTasks(ts, pending) == { k \in pending : ts[k].type # "epic" }

\* _auto_complete_epic for each epic: the state file of a pending task exists
\* and holds the record create_task_json wrote, so its status becomes done
auto_complete_epic(status, epics) ==
    [k \in DOMAIN status |-> IF k \in epics THEN "done" ELSE status[k]]

\* source.get_pending_tasks() and the phase filter
get_pending_tasks ==
    /\ run.stage = "load"
    /\ LET todo    == { k \in 1..Len(tasks) : run.status[k] = "todo" }
           pending == PhaseFilter(tasks, todo, run.phases)
       IN run' = [run EXCEPT !.pending = pending,
                             !.stage = IF todo = {} THEN "end" ELSE "epics"]
    /\ UNCHANGED <<call, files, JSONNET_BIN, touched, mode, tasks, walk, regenerated, san, state_dir>>

\* the epics are completed in place, the rest goes to the runner
auto_complete_epics ==
    /\ run.stage = "epics"
    /\ LET workflow_tasks == WorkflowTasks(tasks, run.pending) IN
       run' = [run EXCEPT
                 !.status = auto_complete_epic(run.status, EpicTasks(tasks, run.pending)),
                 !.dispatched = workflow_tasks,
                 !.stage = IF workflow_tasks = {} THEN "end" ELSE "workflow"]
    /\ UNCHANGED <<call, files, JSONNET_BIN, touched, mode, tasks, walk, regenerated, san, state_dir>>

\* a scheduler that does not look at depends_on
DependenciesDone_Ignored(ts, status, k) == TRUE

\* whether every id in the task's depends_on is done
DependenciesDone(ts, status, k) ==
    \A n \in 1..Len(ts[k].depends_on) :
       \A j \in IndexesOf(ts, ts[k].depends_on[n]) : status[j] = "done"

\* runner.run_all: a dispatched task starts once its dependencies are done
StartTask ==
    /\ run.stage = "workflow"
    /\ \E k \in run.dispatched :
          /\ run.status[k] = "todo"
          /\ DependenciesDone(tasks, run.status, k)
          /\ run' = [run EXCEPT !.status[k] = "running"]
    /\ UNCHANGED <<call, files, JSONNET_BIN, touched, mode, tasks, walk, regenerated, san, state_dir>>

\* runner.run_all: a running task completes
CompleteTask ==
    /\ run.stage = "workflow"
    /\ \E k \in run.dispatched :
          /\ run.status[k] = "running"
          /\ run' = [run EXCEPT !.status[k] = "done"]
    /\ UNCHANGED <<call, files, JSONNET_BIN, touched, mode, tasks, walk, regenerated, san, state_dir>>

\* the subsets of S with at most n elements
RECURSIVE SubsetsUpTo(_, _)
SubsetsUpTo(S, n) ==
    IF n = 0 THEN { {} }
    ELSE LET prev == SubsetsUpTo(S, n - 1)
         IN prev \cup { T \cup {x} : T \in prev, x \in S }

\* the kinds of medium-tier tasks an interrupted run is taken to have left
ResumeKinds == { <<"DASHBOARDS">>, <<"ALERTS">> }

\* the state directory when run_demo starts: setup_demo_tasks has written the
\* generated list; an earlier run was stopped in the medium tier, so the
\* tasks of phases 1 and 2 are done, some of the medium tier's are, and
\* nothing later is.  The epic is either still todo or already done.
InitRun ==
    /\ call = [p \in Procs |-> OffCall]
    /\ files = << >>
    /\ touched = << >>
    /\ JSONNET_BIN = FALSE
    /\ walk = NoWalk
    /\ regenerated = << >>
    /\ san = NoSan
    /\ state_dir = NoStateDir
    /\ mode \in BOOLEAN
    /\ tasks = generate_observability_tasks(mode, {})
    /\ \E epicTodo \in BOOLEAN, phases \in PhaseFilters :
       \E left \in SubsetsUpTo({ k \in 1..Len(tasks) :
                                    /\ tasks[k].phase = 3
                                    /\ SubSeq(tasks[k].id, 3, Len(tasks[k].id)) \in ResumeKinds },
                                MaxPending) :
          run = [stage |-> "load", phases |-> phases, pending |-> {}, dispatched |-> {},
                 status |-> [k \in 1..Len(tasks) |->
                               IF \/ k \in left
                                  \/ tasks[k].phase >= 4
                                  \/ tasks[k].type = "epic" /\ epicTodo
                               THEN "todo" ELSE "done"]]

NextRun == get_pending_tasks \/ auto_complete_epics \/ StartTask \/ CompleteTask

SpecRun == InitRun /\ [][NextRun]_vars

\* the same run without a phase filter, under a runner that keeps going: a
\* task that can start is started and a started task is completed
InitLive == InitRun /\ run.phases = {}

SpecLive ==
    /\ InitLive
    /\ [][NextRun]_vars
    /\ WF_vars(get_pending_tasks)
    /\ WF_vars(auto_complete_epics)
    /\ WF_vars(StartTask)
    /\ WF_vars(CompleteTask)


\* -------------------------------------------------------- setup_demo_tasks
\* the --phases argument: None or an empty list (here {}) or a list of phases
PhaseArgs == SUBSET (1..6)

KeptByPhase(t, phases) == t.phase \in phases \/ t.phase = 0

\* "if phases: source_tasks = [t for t in source_tasks if t["phase"] in
\* phases or t["phase"] == 0]"
FilterByPhase(ts, phases) ==
    IF phases = {} THEN ts
    ELSE SelectSeq(ts, LAMBDA t : KeptByPhase(t, phases))

\* the task files a list of tasks is written to: task id -> task.depends_on
\* as create_task_json copies it
TaskRecords(ts) ==
    [id \in { ts[k].id : k \in 1..Len(ts) } |->
        ts[CHOOSE k \in 1..Len(ts) : ts[k].id = id].depends_on]

\* setup_demo_tasks(phases, dry_run, clean): generate, filter, remove the
\* directory when asked to, then write a file for every task that has none
setup_demo_tasks ==
    /\ state_dir.stage = "before"
    /\ \E phases \in PhaseArgs, clean \in BOOLEAN, dry_run \in BOOLEAN :
         LET source_tasks == FilterByPhase(generate_observability_tasks(mode, {}), phases)
             fresh    == TaskRecords(source_tasks)
             existing == IF clean /\ ~dry_run THEN << >> ELSE state_dir.records
             skipped  == IF clean THEN {} ELSE DOMAIN fresh \cap DOMAIN state_dir.records
             created  == IF dry_run THEN {} ELSE DOMAIN fresh \ skipped
         IN state_dir' =
               [stage |-> "after",
                records |-> [id \in DOMAIN existing \cup created |->
                               IF id \in created THEN fresh[id] ELSE existing[id]],
                created |-> created, skipped |-> skipped,
                phases |-> phases, clean |-> clean, dry_run |-> dry_run]
    /\ UNCHANGED <<call, files, JSONNET_BIN, touched, mode, tasks, walk, regenerated, run, san>>

\* the state directory before the call: empty, or holding the files an
\* earlier "--phases 1" setup wrote
InitSetup ==
    /\ call = [p \in Procs |-> OffCall]
    /\ files = << >>
    /\ touched = << >>
    /\ JSONNET_BIN = FALSE
    /\ mode \in BOOLEAN
    /\ tasks = << >>
    /\ walk = NoWalk
    /\ regenerated = << >>
    /\ run = NoRun
    /\ san = NoSan
    /\ \E earlier \in BOOLEAN :
          state_dir =
             [NoStateDir EXCEPT
                !.stage = "before",
                !.records = IF earlier
                            THEN TaskRecords(FilterByPhase(
                                     generate_observability_tasks(mode, {}), {1}))
                            ELSE << >>]

NextSetup == setup_demo_tasks

SpecSetup == InitSetup /\ [][NextSetup]_vars

\* ------------------------------------------------- the sanitizers alone
MaxLines == 4

SanLines == { <<"F", "md">>, <<"F", "">>, <<"B">>, <<"T">>, <<"H">>, <<"I">> }

RECURSIVE SanTexts(_)
SanTexts(n) ==
    IF n = 0 THEN { << >> }
    ELSE SanTexts(n - 1) \cup
         { Append(t, l) : t \in { u \in SanTexts(n - 1) : Len(u) = n - 1 }, l \in SanLines }

\* _strip_code_fences(text)
StripFences ==
    /\ san.stage = "text"
    /\ san' = [san EXCEPT !.stage = "stripped", !.stripped = strip_code_fences(san.text)]
    /\ UNCHANGED <<call, files, JSONNET_BIN, touched, mode, tasks, walk, regenerated, run, state_dir>>

\* _strip_code_fences applied to its own result
StripAgain ==
    /\ san.stage = "stripped"
    /\ san' = [san EXCEPT !.stage = "again", !.again = strip_code_fences(san.stripped)]
    /\ UNCHANGED <<call, files, JSONNET_BIN, touched, mode, tasks, walk, regenerated, run, state_dir>>

\* _truncate_to_valid_yaml on the fence-stripped text, as both callers apply it
TruncateYaml ==
    /\ san.stage = "stripped"
    /\ san' = [san EXCEPT !.stage = "yaml", !.yaml = truncate_to_valid_yaml(san.stripped)]
    /\ UNCHANGED <<call, files, JSONNET_BIN, touched, mode, tasks, walk, regenerated, run, state_dir>>

InitSanitize ==
    /\ call = [p \in Procs |-> OffCall]
    /\ files = << >>
    /\ touched = << >>
    /\ JSONNET_BIN = FALSE
    /\ mode = TRUE
    /\ tasks = << >>
    /\ walk = NoWalk
    /\ regenerated = << >>
    /\ run = NoRun
    /\ state_dir = NoStateDir
    /\ \E text \in SanTexts(MaxLines) : san = [NoSan EXCEPT !.stage = "text", !.text = text]

NextSanitize == StripFences \/ StripAgain \/ TruncateYaml

SpecSanitize == InitSanitize /\ [][NextSanitize]_vars


\* ===================================================================
\* Properties
\* ===================================================================
Range(sq) == { sq[k] : k \in 1..Len(sq) }

\* the call under study in Spec
theCall == call[1]

\* _split_and_save_artifacts ran for the call and the callback has finished
Extracted(c) == c.pc = "done" /\ c.msg # "success"

KnownKey(c) == parse_task_artifact_key(c.task_id) \in DOMAIN TASK_KEY_TO_DELIMITER

ExpectedType(c) == TASK_KEY_TO_DELIMITER[parse_task_artifact_key(c.task_id)]

ExpectedCfg(c) == ARTIFACT_OUTPUT_CONFIG[ExpectedType(c)]

\* the delimiter lines of a text, read off the text itself
DelimLines(content) == { i \in 1..Len(content) : content[i][1] = "D" }

LinesOfType(content, ty) == { i \in DelimLines(content) : content[i][2] = ty }

\* the lines between delimiter line i and the next delimiter line (or the end)
BodyAfter(content, i) ==
    LET later == { j \in DelimLines(content) : j > i }
        stop  == IF later = {} THEN Len(content) + 1
                 ELSE CHOOSE j \in later : \A k \in later : j <= k
    IN SubSeq(content, i + 1, stop - 1)

Sanitized(content, i, ext) == RawArtifactContent(Strip(BodyAfter(content, i)), ext)

DistinctNames(content, lines) ==
    \A i, j \in lines : content[i][3] = content[j][3] => i = j

WroteIndexes(c) == { w[1] : w \in c.wrote }

\* ------------------------------------------------------------------- C1
\* C1 as stated: with zero markers and a known artifact code, one expected
\* service means the sanitized output is saved and 1 returned; any other
\* expected list means nothing saved and 0 returned.
C1_AsStated ==
    LET c == theCall IN
    (Extracted(c) /\ c.msg # "error" /\ KnownKey(c) /\ DelimLines(c.content) = {})
    => IF Len(c.svc) = 1
       THEN /\ c.ret = 1
            /\ files = (ArtifactFile(ExpectedCfg(c), c.svc[1]) :>
                          TruncateForExt(strip_code_fences(c.content), ExpectedCfg(c).ext))
       ELSE c.ret = 0 /\ files = << >>

\* C1 amended: with zero markers, a known artifact code and one expected
\* service, a non-empty sanitized output is saved as that service's artifact
\* and 1 is returned (a failing write raises and leaves no file); an empty
\* sanitized output saves nothing and returns 0; with more than one expected
\* name, or none, nothing is saved and 0 is returned.
C1_Fallback ==
    LET c == theCall
        a == TruncateForExt(strip_code_fences(c.content), ExpectedCfg(c).ext)
    IN
    (Extracted(c) /\ KnownKey(c) /\ DelimLines(c.content) = {})
    => IF Len(c.svc) = 1 /\ a # << >>
       THEN \/ /\ c.msg # "error"
               /\ c.ret = 1
               /\ files = (ArtifactFile(ExpectedCfg(c), c.svc[1]) :> a)
            \/ c.msg = "error" /\ c.ret = NoRet /\ files = << >>
       ELSE c.msg # "error" /\ c.ret = 0 /\ files = << >>

C1_Witness ==
    LET c == theCall IN
    /\ Extracted(c) /\ KnownKey(c) /\ DelimLines(c.content) = {}
    /\ Len(c.svc) = 1 /\ c.ret = 1
    /\ ArtifactFile(ExpectedCfg(c), c.svc[1]) \in DOMAIN files

\* ------------------------------------------------------------------- C2
\* C2 as stated: every task reached from a task t along one or more
\* depends_on edges has a phase strictly less than t's.
C2_AsStated ==
    walk.steps > 0 => tasks[walk.cur].phase < tasks[walk.start].phase

\* C2 amended: along depends_on edges (directly or transitively) the phase
\* never increases, and it stays equal only on the edge from OB-VERIFY to
\* OB-LOAD, which are both in phase 5.
C2_PhaseOrder ==
    walk.steps > 0 =>
        /\ tasks[walk.cur].phase <= tasks[walk.start].phase
        /\ tasks[walk.cur].phase = tasks[walk.start].phase =>
              tasks[walk.start].id = OB_VERIFY /\ tasks[walk.cur].id = OB_LOAD

C2_Witness ==
    /\ walk.steps > 0
    /\ tasks[walk.start].id = OB_SUMMARY
    /\ tasks[walk.cur].phase = 1

\* ------------------------------------------------------------------- C3
\* C3: no task reaches itself along one or more depends_on edges.
C3_Acyclic == ~(walk.steps > 0 /\ walk.cur = walk.start)

C3_Witness ==
    /\ walk.steps > 0
    /\ tasks[walk.start].id = OB_LOAD
    /\ tasks[walk.cur].depends_on = << >>

\* ------------------------------------------------------------------- C4
PrecedingTier(tier) ==
    LET n == CHOOSE k \in 1..Len(tier_order) : tier_order[k] = tier
    IN IF n = 1 THEN "" ELSE tier_order[n - 1]

\* C4: in decomposed mode the depends_on of every artifact task of a service
\* in tier T is empty for the critical tier and otherwise holds exactly one
\* dashboard task id for each service of the tier preceding T, nothing else.
C4_DecomposedGating ==
    (mode /\ tasks # << >>) =>
      \A k \in 1..Len(tasks) :
        tasks[k].service_name # "" =>
          LET prev == PrecedingTier(SERVICE_TO_TIER(tasks[k].service_name))
              deps == tasks[k].depends_on
              ids  == { tasks[j].id : j \in 1..Len(tasks) }
          IN IF prev = "" THEN deps = << >>
             ELSE /\ Range(deps) =
                       { id \in ids : \E sv \in Range(TIER_MAP[prev]) :
                            id \in { <<"OB", Upper(sv), "DASHBOARDS">>,
                                     <<"OB", Upper(sv), "DASHBOARD">> } }
                  /\ \A sv \in Range(TIER_MAP[prev]) :
                        \E id \in Range(deps) : id[2] = Upper(sv)
                  /\ Cardinality(Range(deps)) = Len(deps)

C4_Witness ==
    /\ mode /\ tasks # << >>
    /\ \E k \in 1..Len(tasks) :
          tasks[k].service_name = "loadgenerator" /\ Len(tasks[k].depends_on) = 3

\* ------------------------------------------------------------------- C5
\* C5: on the delimiter path an exception while one block is processed does
\* not abort the call, and every other block of the expected type with
\* content is still saved.
C5_Isolation ==
    LET c  == theCall
        ms == Matches(1)
    IN
    (Extracted(c) /\ KnownKey(c) /\ ms # << >> /\ ~is_params_output(1))
    => /\ c.msg # "error"
       /\ \A i \in 1..Len(ms) :
             ( /\ c.content[ms[i]][2] = ExpectedType(c)
               /\ RawArtifactContent(SpanOf(c.content, ms, i), ExpectedCfg(c).ext) # << >> )
             => i \in WroteIndexes(c) \cup c.failed

\* ------------------------------------------------------------------- C6
\* C6: under any interleaving of two calls for different tasks no file is
\* written by one call and written or read by the other, and each compiled
\* artifact holds what its own call's parameter block compiles to.
C6_NoInterference ==
    /\ \A f \in DOMAIN touched : Cardinality(touched[f]) <= 1
    /\ (\A p \in Procs : call[p].pc = "done") =>
          \A p \in Procs : \A w \in call[p].wrote :
             (w[2][1] # PARAMS_DIR /\ is_params_output(p)) =>
                files[w[2]] =
                   << <<"C", ARTIFACT_KEY_TO_FACTORY[Key(p)]>> >> \o
                   strip_code_fences(SpanOf(call[p].content, Matches(p), w[1]))

\* ------------------------------------------------------------------- C7
\* C7 as stated: no block whose declared type differs from the type implied
\* by the task's artifact code is written or counted.
C7_AsStated ==
    LET c == theCall IN
    KnownKey(c) =>
       \A w \in c.wrote : w[1] >= 1 => MatchLine(1, w[1])[2] = ExpectedType(c)

\* C7 amended: a block whose declared type is neither the implied type nor
\* PARAMS is never written or counted; when the output holds a PARAMS marker
\* the PARAMS blocks, and only they, are written and counted (whatever the
\* artifact code), and otherwise only blocks of the implied type are.
C7_TypeFiltering ==
    LET c == theCall
        wanted == IF LinesOfType(c.content, "PARAMS") # {} THEN "PARAMS"
                  ELSE IF KnownKey(c) THEN ExpectedType(c) ELSE ""
    IN
    /\ \A w \in c.wrote : w[1] >= 1 => MatchLine(1, w[1])[2] = wanted
    /\ c.saved <= Cardinality(LinesOfType(c.content, wanted))
    /\ (c.ret # NoRet /\ DelimLines(c.content) # {}) =>
          c.ret <= Cardinality(LinesOfType(c.content, wanted))

C7_Witness ==
    LET c == theCall IN
    /\ Extracted(c) /\ KnownKey(c) /\ c.ret = 1
    /\ LinesOfType(c.content, "PARAMS") = {}
    /\ \E i \in DelimLines(c.content) :
          /\ c.content[i][2] # ExpectedType(c)
          /\ Sanitized(c.content, i, ExpectedCfg(c).ext) # << >>

\* ------------------------------------------------------------------- C8
\* C8 as stated: markers of the expected type for N distinct names give N
\* files and a return value of N.
C8_AsStated ==
    LET c == theCall
        E == LinesOfType(c.content, ExpectedType(c))
    IN
    (Extracted(c) /\ c.msg # "error" /\ KnownKey(c) /\ E # {}
        /\ DistinctNames(c.content, E))
    => c.ret = Cardinality(E) /\ Cardinality(DOMAIN files) = Cardinality(E)

\* C8 amended: when the output holds no PARAMS marker and every marker of the
\* expected type, for N distinct names in any order, owns a body that is not
\* empty after sanitization, a call that no write failure aborts saves
\* exactly N files, one per declared name holding its sanitized body, and
\* returns N.
C8_RoundTrip ==
    LET c   == theCall
        E   == LinesOfType(c.content, ExpectedType(c))
        cfg == ExpectedCfg(c)
    IN
    (Extracted(c) /\ c.msg # "error" /\ KnownKey(c) /\ E # {}
        /\ DistinctNames(c.content, E)
        /\ LinesOfType(c.content, "PARAMS") = {}
        /\ \A i \in E : Sanitized(c.content, i, cfg.ext) # << >>)
    => /\ c.ret = Cardinality(E)
       /\ DOMAIN files = { ArtifactFile(cfg, c.content[i][3]) : i \in E }
       /\ Cardinality(DOMAIN files) = Cardinality(E)
       /\ \A i \in E : files[ArtifactFile(cfg, c.content[i][3])]
                          = Sanitized(c.content, i, cfg.ext)

C8_Witness ==
    LET c == theCall
        E == LinesOfType(c.content, ExpectedType(c))
    IN
    /\ Extracted(c) /\ KnownKey(c)
    /\ Cardinality(E) = 2 /\ DistinctNames(c.content, E)
    /\ c.ret = 2 /\ Cardinality(DOMAIN files) = 2

\* ------------------------------------------------------------------- C9
\* a truncation warning with the counts reached the user: warnings.warn in
\* the extraction, or the WARN text of the callback's message
WarningSurfaced(c) == c.warned = <<c.ret, Len(c.svc)>> \/ c.msg = "warn"

\* C9 as stated: whenever a call returns fewer saved artifacts than services
\* expected, a warning carrying both counts is surfaced.
C9_AsStated ==
    LET c == theCall IN
    (Extracted(c) /\ c.ret # NoRet /\ c.ret < Len(c.svc)) => WarningSurfaced(c)

\* C9 amended: a call that found at least one marker and no PARAMS marker
\* for a known artifact code, and returns fewer saved artifacts than services
\* expected, raises the truncation warning with (saved, expected), returns
\* the saved count and keeps the files; no warning is raised otherwise.  On
\* every path the callback's message carries the counts when 0 < saved <
\* expected.  With no marker at all, or on the PARAMS path, a call that saved
\* nothing reports no counts, and a call aborted by a failing write warns
\* of nothing.
C9_Warning ==
    LET c == theCall
        delimiterPath == KnownKey(c) /\ DelimLines(c.content) # {}
                         /\ LinesOfType(c.content, "PARAMS") = {}
    IN
    Extracted(c) =>
       /\ (c.ret # NoRet /\ c.ret < Len(c.svc)) =>
             /\ delimiterPath => c.warned = <<c.ret, Len(c.svc)>>
             /\ c.ret > 0 => c.msg = "warn"
             /\ \A w \in c.wrote : w[2] \in DOMAIN files
       /\ c.warned # << >> =>
             delimiterPath /\ c.ret # NoRet /\ c.ret < Len(c.svc)
                /\ c.warned = <<c.ret, Len(c.svc)>>
       /\ c.msg = "error" => c.warned = << >> /\ c.ret = NoRet

C9_Witness ==
    LET c == theCall IN
    /\ Extracted(c)
    /\ c.task_id = <<"OB", "CRIT", "ALERTS">>
    /\ c.ret = 2 /\ c.warned = <<2, 4>> /\ Cardinality(DOMAIN files) = 2

\* ------------------------------------------------------------------ C10
\* C10: for an id OB-<scope>-<code> whose code is outside the vocabulary no
\* file is written and 0 is returned without an exception, whatever markers
\* the output holds.
C10_UnknownCode ==
    LET c   == theCall
        key == parse_task_artifact_key(c.task_id)
    IN
    (~KeyIsFalsy(key) /\ key \notin DOMAIN TASK_KEY_TO_DELIMITER)
    => /\ files = << >>
       /\ c.wrote = {}
       /\ Extracted(c) => c.ret = 0 /\ c.msg # "error"


\* ------------------------------------------------------------------ C11
\* the id shapes the extraction treats as foreign, read off the id itself
ForeignId(tid) ==
    \/ Len(tid) < 3
    \/ tid[1] # "OB"
    \/ Len(tid) = 3 /\ tid[3] = ""

SavedUncompiled(c, i) ==
    /\ i < c.i \/ c.pc = "done"
    /\ \E w \in c.wrote : w[1] = i /\ w[2][1] = PARAMS_DIR
    /\ ~\E w \in c.wrote : w[1] = i /\ w[2][1] # PARAMS_DIR

\* the PARAMS blocks of the output that hold a parameter document
ParamsBlocks(c) ==
    { i \in 1..Cardinality(DelimLines(c.content)) :
         LET l == CHOOSE l \in DelimLines(c.content) :
                     Cardinality({ j \in DelimLines(c.content) : j <= l }) = i
         IN /\ c.content[l][2] = "PARAMS"
            /\ strip_code_fences(Strip(BodyAfter(c.content, l))) # << >> }

\* C12: on the PARAMS path a block whose compilation did not happen or failed
\* (no compiler binary, no factory, non-zero exit, timeout) raises nothing,
\* keeps its parameter file, gets no compiled file, and the PARAMS blocks
\* after it are still processed.
C12_CompileFailure ==
    LET c   == theCall
        ms  == Matches(1)
        cfg == ExpectedCfg(c)
    IN
    (KnownKey(c) /\ LinesOfType(c.content, "PARAMS") # {}) =>
       /\ \A i \in 1..Len(ms) : SavedUncompiled(c, i) =>
             /\ ParamsFile(c.content[ms[i]][3]) \in DOMAIN files
             /\ (ArtifactFile(cfg, c.content[ms[i]][3]) \in DOMAIN files) =>
                   \E w \in c.wrote : w[2] = ArtifactFile(cfg, c.content[ms[i]][3])
             /\ i \notin c.failed
       /\ ~JSONNET_BIN => \A f \in DOMAIN files : f[1] = PARAMS_DIR
       /\ (c.pc = "done" /\ c.msg # "error") =>
             /\ \A i \in ParamsBlocks(c) : \E w \in c.wrote : w[1] = i
             /\ c.compiled + Cardinality({ i \in 1..Len(ms) : SavedUncompiled(c, i) })
                   = Cardinality(ParamsBlocks(c))

C12_Witness ==
    LET c == theCall IN
    /\ KnownKey(c) /\ JSONNET_BIN /\ c.pc = "done" /\ c.msg # "error"
    /\ SavedUncompiled(c, 1) /\ c.compiled = 1 /\ c.ret = 1
    /\ Cardinality(ParamsBlocks(c)) = 2


\* ------------------------------------------- the generated list, read back
UtilityIdSet == { OB_EPIC, OB_LOAD, OB_VERIFY, OB_SUMMARY }

ArtifactIndexes(ts) == { k \in 1..Len(ts) : ts[k].id \notin UtilityIdSet }

TaskWithId(ts, id) == ts[CHOOSE k \in 1..Len(ts) : ts[k].id = id]

IdsOf(ts) == { ts[k].id : k \in 1..Len(ts) }

EdgesOf(ts) ==
    UNION { { <<ts[k].id, d>> : d \in Range(ts[k].depends_on) } : k \in 1..Len(ts) }

\* the six standard artifact kinds and the two of the low tier
StandardKinds ==
    { <<"DASHBOARDS">>, <<"ALERTS">>, <<"SLOS">>, <<"NOTIFY">>,
      <<"LOKI", "RULES">>, <<"RUNBOOKS">> }

KindsOfTier(tier) ==
    IF tier = "low" THEN { <<"DASHBOARD">>, <<"RUNBOOK">> } ELSE StandardKinds

TierPrefix == [critical |-> "CRIT", high |-> "HIGH", medium |-> "MED", low |-> "LOW"]

\* ------------------------------------------------------------------ C13
\* C13: in both modes OB-LOAD depends on exactly the artifact task ids (all
\* tasks but OB-EPIC, OB-LOAD, OB-VERIFY, OB-SUMMARY), OB-VERIFY on exactly
\* OB-LOAD and OB-SUMMARY on exactly OB-VERIFY.
C13_FanIn ==
    tasks # << >> =>
       LET load == TaskWithId(tasks, OB_LOAD) IN
       /\ Range(load.depends_on) = { tasks[k].id : k \in ArtifactIndexes(tasks) }
       /\ Len(load.depends_on) = Cardinality(ArtifactIndexes(tasks))
       /\ TaskWithId(tasks, OB_VERIFY).depends_on = <<OB_LOAD>>
       /\ TaskWithId(tasks, OB_SUMMARY).depends_on = <<OB_VERIFY>>

C13_Witness ==
    /\ tasks # << >> /\ ~mode
    /\ Len(TaskWithId(tasks, OB_LOAD).depends_on) = 20
    /\ <<"OB", "LOW", "RUNBOOK">> \in Range(TaskWithId(tasks, OB_LOAD).depends_on)

C15_IdContract ==
    tasks # << >> =>
       \A k \in ArtifactIndexes(tasks) :
          LET id == tasks[k].id IN
          /\ Len(id) >= 3 /\ id[1] = "OB"
          /\ IF mode THEN /\ tasks[k].service_name \in SERVICE_INFO
                          /\ id[2] = Upper(tasks[k].service_name)
                     ELSE id[2] \in { TierPrefix[t] : t \in DOMAIN TierPrefix }
          /\ \E kind \in StandardKinds \cup KindsOfTier("low") :
                /\ id = <<id[1], id[2]>> \o kind
                /\ parse_task_artifact_key(id) = kind
          /\ parse_task_artifact_key(id) \in DOMAIN TASK_KEY_TO_DELIMITER

C15_Witness ==
    /\ tasks # << >> /\ mode
    /\ <<"OB", "FRONTEND", "LOKI", "RULES">> \in IdsOf(tasks)
    /\ parse_task_artifact_key(<<"OB", "FRONTEND", "LOKI", "RULES">>) = <<"LOKI", "RULES">>

\* ------------------------------------------------------------------ C16
PrecedingPrefix == [HIGH |-> "CRIT", MED |-> "HIGH", LOW |-> "MED"]

PrefixPhase == [CRIT |-> 1, HIGH |-> 2, MED |-> 3, LOW |-> 4]

\* C16: in batched mode the tasks of the critical tier have no dependency,
\* every task of a later tier depends on exactly the DASHBOARDS task of the
\* tier before it, that task is in the list, and the phases are 1, 2, 3, 4.
C16_BatchedGating ==
    (~mode /\ tasks # << >>) =>
       \A k \in ArtifactIndexes(tasks) :
          LET pre == tasks[k].id[2] IN
          /\ pre \in DOMAIN PrefixPhase
          /\ tasks[k].phase = PrefixPhase[pre]
          /\ IF pre = "CRIT" THEN tasks[k].depends_on = << >>
             ELSE /\ tasks[k].depends_on = << <<"OB", PrecedingPrefix[pre], "DASHBOARDS">> >>
                  /\ <<"OB", PrecedingPrefix[pre], "DASHBOARDS">> \in IdsOf(tasks)

C16_Witness ==
    /\ ~mode /\ tasks # << >>
    /\ TaskWithId(tasks, <<"OB", "LOW", "DASHBOARD">>).depends_on
          = << <<"OB", "MED", "DASHBOARDS">> >>
    /\ TaskWithId(tasks, <<"OB", "LOW", "DASHBOARD">>).phase = 4

\* ------------------------------------------------------------------ C17
\* C17: batched mode has one artifact task per (tier, kind), 20 in all, and
\* decomposed mode one per (service, kind), 62 in all, the low tier with the
\* kinds DASHBOARD and RUNBOOK only; a decomposed task carries its service.
C17_TaskCount ==
    tasks # << >> =>
       LET A == ArtifactIndexes(tasks) IN
       IF mode
       THEN /\ Cardinality(A) = 62
            /\ \A k \in A : tasks[k].service_name \in SERVICE_INFO
            /\ \A sv \in SERVICE_INFO :
                  /\ \A kind \in KindsOfTier(SERVICE_TO_TIER(sv)) :
                        Cardinality({ k \in A :
                            /\ tasks[k].service_name = sv
                            /\ tasks[k].id = <<"OB", Upper(sv)>> \o kind }) = 1
                  /\ Cardinality({ k \in A : tasks[k].service_name = sv })
                        = Cardinality(KindsOfTier(SERVICE_TO_TIER(sv)))
       ELSE /\ Cardinality(A) = 20
            /\ \A tier \in DOMAIN TierPrefix :
                  /\ \A kind \in KindsOfTier(tier) :
                        Cardinality({ k \in A :
                            tasks[k].id = <<"OB", TierPrefix[tier]>> \o kind }) = 1
                  /\ Cardinality({ k \in A : tasks[k].id[2] = TierPrefix[tier] })
                        = Cardinality(KindsOfTier(tier))

C17_Witness ==
    /\ tasks # << >> /\ mode
    /\ Cardinality(ArtifactIndexes(tasks)) = 62
    /\ Cardinality({ k \in ArtifactIndexes(tasks) :
                        tasks[k].service_name = "loadgenerator" }) = 2


C19_TiersSequential ==
    \A k \in ArtifactIndexes(tasks) :
       run.status[k] = "running" =>
          \A j \in ArtifactIndexes(tasks) :
             tasks[j].phase + 1 = tasks[k].phase => run.status[j] = "done"


\* ------------------------------------------------------------------ C20
\* what the claim expects of a fence-stripped text: the leading complete JSON
\* value alone, or the text as it is when there is none
JsonExpected(pre) == IF Head(pre) = <<"J">> THEN << <<"J">> >> ELSE pre

\* C20: for a JSON-kind artifact a text that starts with a complete JSON
\* value is saved as that value alone, the trailing text dropped; a text
\* without a complete leading value is saved unchanged; both are counted.
C20_JsonSanitization ==
    LET c   == theCall
        cfg == ExpectedCfg(c)
        E   == LinesOfType(c.content, ExpectedType(c))
        Pre(l) == strip_code_fences(Strip(BodyAfter(c.content, l)))
        whole  == strip_code_fences(c.content)
    IN
    (Extracted(c) /\ c.msg # "error" /\ KnownKey(c) /\ cfg.ext = "json"
        /\ LinesOfType(c.content, "PARAMS") = {}) =>
       IF DelimLines(c.content) = {}
       THEN (Len(c.svc) = 1 /\ whole # << >>) =>
               /\ c.ret = 1
               /\ files[ArtifactFile(cfg, c.svc[1])] = JsonExpected(whole)
       ELSE /\ c.ret = Cardinality({ l \in E : Pre(l) # << >> })
            /\ \A l \in E :
                  ( /\ Pre(l) # << >>
                    /\ ~\E m \in E : m > l /\ c.content[m][3] = c.content[l][3]
                                           /\ Pre(m) # << >> )
                  => files[ArtifactFile(cfg, c.content[l][3])] = JsonExpected(Pre(l))

C20_Witness ==
    LET c == theCall IN
    /\ Extracted(c) /\ KnownKey(c) /\ ExpectedCfg(c).ext = "json" /\ c.ret = 2
    /\ \E l \in LinesOfType(c.content, "DASHBOARD") :
          /\ Len(strip_code_fences(Strip(BodyAfter(c.content, l)))) > 1
          /\ files[ArtifactFile(ExpectedCfg(c), c.content[l][3])] = << <<"J">> >>
    /\ \E f \in DOMAIN files : files[f] = << <<"K">> >>


\* ------------------------------------------------------------------ C21
\* the lines before position n
Before(t, n) == SubSeq(t, 1, n - 1)

TiersOf(sv) == { t \in DOMAIN TIER_MAP : InSeq(sv, TIER_MAP[t]) }

\* C22: the tiers critical, high, medium and low own pairwise disjoint
\* service sets whose union is the set of known services, so every service
\* is in exactly one tier (the one the reverse lookup gives); the tiers have
\* the phases 1, 2, 3, 4, and every artifact task of either mode carries the
\* phase of its tier.
C22_TierPartition ==
    /\ DOMAIN TIER_MAP = Range(tier_order)
    /\ \A t, u \in DOMAIN TIER_MAP : t # u => Range(TIER_MAP[t]) \cap Range(TIER_MAP[u]) = {}
    /\ UNION { Range(TIER_MAP[t]) : t \in DOMAIN TIER_MAP } = SERVICE_INFO
    /\ \A sv \in SERVICE_INFO : TiersOf(sv) = { SERVICE_TO_TIER(sv) }
    /\ \A n \in 1..Len(tier_order) : TIER_TO_PHASE[tier_order[n]] = n
    /\ \A n \in 1..Len(TIER_CONFIGS) :
          /\ TIER_CONFIGS[n].name = tier_order[n]
          /\ TIER_CONFIGS[n].phase = TIER_TO_PHASE[TIER_CONFIGS[n].name]
    /\ tasks # << >> =>
          \A k \in ArtifactIndexes(tasks) :
             \E t \in DOMAIN TIER_MAP :
                /\ tasks[k].phase = TIER_TO_PHASE[t]
                /\ IF mode THEN TiersOf(tasks[k].service_name) = {t}
                           ELSE tasks[k].id[2] = TierPrefix[t]

C22_Witness ==
    /\ tasks # << >> /\ mode
    /\ \E k \in ArtifactIndexes(tasks) :
          tasks[k].service_name = "shippingservice" /\ tasks[k].phase = 2
    /\ \E k \in ArtifactIndexes(tasks) :
          tasks[k].service_name = "loadgenerator" /\ tasks[k].phase = 4

\* ------------------------------------------------------------------ C23
\* the lines a marker line owns: those after it up to the next marker line
OwnedLines(content, l) ==
    { n \in (l + 1)..Len(content) : \A j \in (l + 1)..n : content[j][1] # "D" }

\* the block that wrote file f last
LastWriter(c, f) ==
    CHOOSE i \in { w[1] : w \in { v \in c.wrote : v[2] = f } } :
       \A w \in c.wrote : w[2] = f => w[1] <= i

\* C23: the matches are the marker lines in increasing position; the span of
\* each is the text from its marker to the next marker of any type (or the
\* end), so spans hold no marker and do not overlap; every saved file holds
\* only text of the span of the block that wrote it, never the text that
\* follows a neighbouring marker of an unexpected type.
C23_SpanOwnership ==
    LET c  == theCall
        ms == Matches(1)
        Owned(i) == OwnedLines(c.content, ms[i])
        Text(i)  == Strip(BodyAfter(c.content, ms[i]))
    IN
    \* the output text does not change during a call: its spans are compared
    \* once, when the call is entered
    /\ c.pc = "idle" =>
          /\ Range(ms) = DelimLines(c.content)
          /\ \A i, j \in 1..Len(ms) : i < j => ms[i] < ms[j]
          /\ \A i, j \in 1..Len(ms) : i # j => Owned(i) \cap Owned(j) = {}
          /\ \A i \in 1..Len(ms) :
                /\ \A n \in Owned(i) : i < Len(ms) => n < ms[i + 1]
                /\ SpanOf(c.content, ms, i) =
                      Strip([n \in 1..Cardinality(Owned(i)) |-> c.content[ms[i] + n]])
                /\ SpanOf(c.content, ms, i) = Text(i)
    /\ (files # << >> /\ ms # << >>) =>
          \A f \in DOMAIN files :
             LET i == LastWriter(c, f) IN
             files[f] =
                IF is_params_output(1)
                THEN IF f[1] = PARAMS_DIR THEN strip_code_fences(Text(i))
                     ELSE << <<"C", ARTIFACT_KEY_TO_FACTORY[Key(1)]>> >> \o
                          strip_code_fences(Text(i))
                ELSE RawArtifactContent(Text(i), ExpectedCfg(c).ext)

C23_Witness ==
    LET c  == theCall
        ms == Matches(1)
    IN
    /\ Extracted(c) /\ KnownKey(c) /\ c.ret = 1 /\ Len(ms) = 2
    /\ c.content[ms[1]][2] = ExpectedType(c)
    /\ c.content[ms[2]][2] \notin { ExpectedType(c), "PARAMS" }
    /\ Strip(BodyAfter(c.content, ms[2])) # << >>
    /\ files = (ArtifactFile(ExpectedCfg(c), c.content[ms[1]][3]) :>
                   Sanitized(c.content, ms[1], ExpectedCfg(c).ext))

\* ------------------------------------------------------------------ C25
\* the parameter files and the compiled outputs a call produced, read off
\* its writes
SavedBlocks(c) == { w[1] : w \in { v \in c.wrote : v[2][1] = PARAMS_DIR } }

CompiledBlocks(c) == { w[1] : w \in { v \in c.wrote : v[2][1] # PARAMS_DIR } }

\* C25: the parameter-document path returns the number of compiled outputs
\* when at least one compile succeeded and otherwise the number of parameter
\* files saved; the save/compile discrepancy is logged with both counts
\* exactly when something was saved and fewer were compiled.
C25_ParamsCount ==
    LET c  == theCall
        sv == Cardinality(SavedBlocks(c))
        cp == Cardinality(CompiledBlocks(c))
    IN
    (Extracted(c) /\ c.msg # "error" /\ ~KeyIsFalsy(Key(1)) /\ is_params_output(1)) =>
       /\ c.saved = sv /\ c.compiled = cp /\ cp <= sv
       /\ c.ret = IF cp > 0 THEN cp ELSE sv
       /\ (sv > 0 /\ cp < sv) => c.info = <<sv, cp>>
       /\ ~(sv > 0 /\ cp < sv) => c.info = << >>

C25_Witness ==
    LET c == theCall IN
    /\ Extracted(c) /\ c.msg # "error" /\ is_params_output(1)
    /\ Cardinality(SavedBlocks(c)) = 2 /\ Cardinality(CompiledBlocks(c)) = 1
    /\ c.ret = 1 /\ c.info = <<2, 1>>

\* ------------------------------------------------------------------ C26
\* C26: in the list generate_observability_tasks returns, in either mode, no
\* two tasks share an id and every id in a depends_on list is the id of a
\* task of the same list.
C26_UniqueClosed ==
    \A ts \in {tasks, regenerated} :
       /\ \A j, k \in 1..Len(ts) : ts[j].id = ts[k].id => j = k
       /\ \A k \in 1..Len(ts) : \A n \in 1..Len(ts[k].depends_on) :
             Cardinality(IndexesOf(ts, ts[k].depends_on[n])) = 1

C26_Witness ==
    /\ mode /\ Len(tasks) = 66
    /\ \E k \in 1..Len(tasks) :
          /\ tasks[k].id = <<"OB", "SHIPPINGSERVICE", "LOKI", "RULES">>
          /\ Len(tasks[k].depends_on) = 4
          /\ Range(tasks[k].depends_on) \subseteq IdsOf(tasks)

\* ------------------------------------------------------------------ C27
AllDone == \A k \in 1..Len(tasks) : run.status[k] = "done"

\* OB-LOAD is not started before every artifact task is done
LoadAfterArtifacts ==
    \A k \in 1..Len(tasks) :
       (tasks[k].id = OB_LOAD /\ run.status[k] # "todo") =>
          \A j \in ArtifactIndexes(tasks) : run.status[j] = "done"

\* when OB-SUMMARY is done every other task but the epic is done
SummaryLast ==
    \A k \in 1..Len(tasks) :
       (tasks[k].id = OB_SUMMARY /\ run.status[k] = "done") =>
          \A j \in 1..Len(tasks) : tasks[j].type # "epic" => run.status[j] = "done"

C28_FilteredClosed ==
    state_dir.stage = "after" =>
       \A id \in state_dir.created :
          \A d \in Range(state_dir.records[id]) : d \in DOMAIN state_dir.records

\* ------------------------------------------------------------------ C29
\* C29: on the delimiter paths every file written for a task is named after
\* a service of the task's expected list (the one service of a decomposed
\* task, the tier's members for a batched task); a block that declares any
\* other name is not written.
C29_ExpectedServices ==
    LET c == theCall IN
    (DelimLines(c.content) # {} /\ c.svc # << >>) =>
       /\ \A f \in DOMAIN files : InSeq(f[2], c.svc)
       /\ \A w \in c.wrote : InSeq(w[2][2], c.svc)

\* ------------------------------------------------------------------ C30
\* C30: the count the raw delimiter path returns is the number of distinct
\* files the call wrote, also when two markers of the expected type declare
\* the same service, so it never exceeds the number of distinct declared
\* services.
C30_CountIsFiles ==
    LET c == theCall
        E == LinesOfType(c.content, ExpectedType(c))
    IN
    (Extracted(c) /\ c.msg # "error" /\ KnownKey(c) /\ DelimLines(c.content) # {}
        /\ LinesOfType(c.content, "PARAMS") = {}) =>
       /\ c.ret = Cardinality({ w[2] : w \in c.wrote })
       /\ c.ret = Cardinality(DOMAIN files)
       /\ c.ret <= Cardinality({ c.content[l][3] : l \in E })

\* ------------------------------------------------------------------ C24
FenceCount(t) == Cardinality({ i \in 1..Len(t) : t[i][1] = "F" })

IsContent(l) == l[1] \notin {"F", "B"}

\* C24: fence stripping removes one pair of fence lines and leaves the rest,
\* fence lines inside the body included, as it was; a text without fence
\* lines comes back unchanged (surrounding blank lines aside), and a second
\* application changes nothing.
C24_FenceStripping ==
    san.stage \in {"stripped", "again", "yaml"} =>
       /\ FenceCount(san.stripped) >= FenceCount(san.text) - 2
       /\ SelectSeq(san.stripped, IsContent) = SelectSeq(san.text, IsContent)
       /\ FenceCount(san.text) = 0 => san.stripped = Strip(san.text)
       /\ san.stage = "again" => san.again = san.stripped

====
